---- MODULE Spec2Model ----
(***************************************************************************)
(* A model of clean_doc.py: the control-character filter, the text repair  *)
(* function, the paragraph/run walker, the document processor and the      *)
(* command-line driver with its file resolution and main loop.             *)
(*                                                                         *)
(* Two specifications share the module:                                    *)
(*   SpecText  the pure text functions applied to every string over a      *)
(*             small alphabet;                                             *)
(*   Spec      one invocation of main over a small directory.              *)
(***************************************************************************)
EXTENDS Integers, Sequences, FiniteSets, TLC

VARIABLES
    \* ---- text functions (SpecText) ----
    text,        \* the input string, a sequence of characters
    stage,       \* which function has been applied to it
    first,       \* the result of the first application
    second,      \* the result of cleaning first.text again
    \* ---- one invocation of main (Spec) ----
    fs,          \* the directory: file name -> content
    fs0,         \* the directory as it was when main started
    fsIter,      \* the directory as it was when the current iteration started
    targets,     \* args.targets
    backup,      \* args.backup
    suffix,      \* args.suffix
    candidates,  \* the resolved list
    idx,         \* position of the loop in candidates (1-based)
    pc,          \* where main is
    doc,         \* the Document object of the current iteration
    counts,      \* (mb_total, ctrl_total) of the current clean_docx call
    total_mb,
    total_ctrl,
    exitStatus,  \* the process exit status, -1 while running
    log          \* the file operations performed so far, in order

textVars == <<text, stage, first, second>>
mainVars == <<fs, fs0, fsIter, targets, backup, suffix, candidates, idx, pc,
              doc, counts, total_mb, total_ctrl, exitStatus, log>>
vars == <<textVars, mainVars>>

\* Longest input string of SpecText.
MaxLen == 3

(***************************************************************************)
(* Characters.  A string is a sequence of characters; a character is named *)
(* by a string.  The alphabet holds the three preserved whitespace        *)
(* controls, one other Cc character, one Cf character, and a letter with   *)
(* a combining mark and their precomposed form (for NFC).                  *)
(*   TAB U+0009  LF U+000A  CR U+000D  FF U+000C  SHY U+00AD               *)
(*   e U+0065    acute U+0301           eacute U+00E9                      *)
(***************************************************************************)
Alphabet == {"TAB", "LF", "CR", "FF", "SHY", "e", "acute", "eacute"}

\* unicodedata.category on the alphabet
Category(ch) ==
    CASE ch \in {"TAB", "LF", "CR", "FF"} -> "Cc"
      [] ch = "SHY" -> "Cf"
      [] ch \in {"e", "eacute"} -> "Ll"
      [] ch = "acute" -> "Mn"

CONTROL_CATEGORIES == {"Cf", "Cc"}

\* the literal "\t\n\r" of the filter's test
KeptWhitespace == {"TAB", "LF", "CR"}

\* A plausible slip: the whitespace exception is forgotten.
IsControlNoException(ch) == Category(ch) \in CONTROL_CATEGORIES

\* the test of the filter's loop
IsControl(ch) ==
    Category(ch) \in CONTROL_CATEGORIES /\ ch \notin KeptWhitespace

\* the filter's loop: i is the position of ch in text
RECURSIVE StripLoop(_, _, _, _)
StripLoop(txt, i, new_chars, removed) ==
    IF i > Len(txt) THEN <<new_chars, removed>>
    ELSE IF IsControl(txt[i])
         THEN StripLoop(txt, i + 1, new_chars, removed + 1)
         ELSE StripLoop(txt, i + 1, Append(new_chars, txt[i]), removed)

\* _strip_control_chars: <<cleaned text, number removed>>
StripControlChars(txt) == StripLoop(txt, 1, <<>>, 0)

(***************************************************************************)
(* fix_text(text, normalization="NFC").  The repair engine is a library;   *)
(* what the call asks of it on this alphabet is canonical composition:     *)
(* a letter followed by its combining mark becomes the precomposed letter. *)
(* A mark separated from the letter by another character does not compose. *)
(***************************************************************************)
RECURSIVE FixText(_)
FixText(txt) ==
    IF Len(txt) < 2 THEN txt
    ELSE IF txt[1] = "e" /\ txt[2] = "acute"
         THEN <<"eacute">> \o FixText(SubSeq(txt, 3, Len(txt)))
         ELSE <<txt[1]>> \o FixText(Tail(txt))

Min(a, b) == IF a < b THEN a ELSE b
Abs(n) == IF n < 0 THEN -n ELSE n

\* sum(1 for a, b in zip(text, fixed) if a != b) + abs(len(text) - len(fixed))
MojibakeFixes(txt, fixed) ==
    Cardinality({i \in 1..Min(Len(txt), Len(fixed)) : txt[i] # fixed[i]})
    + Abs(Len(txt) - Len(fixed))

\* _clean_string
CleanString(txt) ==
    IF txt = <<>> THEN [text |-> txt, mb |-> 0, ctrl |-> 0]
    ELSE LET fixed == FixText(txt)
             s == StripControlChars(fixed)
         IN [text |-> s[1], mb |-> MojibakeFixes(txt, fixed), ctrl |-> s[2]]

\* A plausible slip: the cleaned text is never written back to the run.
VisitRunNoWrite(run_text) ==
    LET c == CleanString(run_text)
    IN [text |-> run_text, mb |-> c.mb, ctrl |-> c.ctrl]

\* the body of the walker's loop for one run: the text the run holds
\* afterwards and the two counts added to the totals
VisitRun(run_text) ==
    LET c == CleanString(run_text)
    IN [text |-> IF c.text # run_text THEN c.text ELSE run_text,
        mb |-> c.mb, ctrl |-> c.ctrl]

(***************************************************************************)
(* Documents.  A document is [kind |-> "docx", paragraphs, tables]; a      *)
(* paragraph is a sequence of runs (each a string); a table is a sequence  *)
(* of rows, a row a sequence of cells, a cell is [paragraphs, tables].     *)
(***************************************************************************)

\* the sum of a sequence of numbers
RECURSIVE SumSeq(_)
SumSeq(ns) == IF ns = <<>> THEN 0 ELSE Head(ns) + SumSeq(Tail(ns))

\* _process_paragraphs: for para in paragraphs, for run in para.runs, the
\* run is visited; the paragraphs afterwards and the two totals
ProcessParagraphs(paragraphs) ==
    LET v == [p \in DOMAIN paragraphs |->
                [r \in DOMAIN paragraphs[p] |-> VisitRun(paragraphs[p][r])]]
    IN [paragraphs |->
            [p \in DOMAIN paragraphs |->
                [r \in DOMAIN paragraphs[p] |-> v[p][r].text]],
        mb |-> SumSeq([p \in DOMAIN paragraphs |->
                  SumSeq([r \in DOMAIN paragraphs[p] |-> v[p][r].mb])]),
        ctrl |-> SumSeq([p \in DOMAIN paragraphs |->
                  SumSeq([r \in DOMAIN paragraphs[p] |-> v[p][r].ctrl])])]

\* for table in doc.tables, for row in table.rows, for cell in row.cells:
\* _process_paragraphs(cell.paragraphs).  Only the cell's own paragraphs are
\* walked; cell.tables is not.
WalkTables(tables) ==
    LET v == [t \in DOMAIN tables |->
                [r \in DOMAIN tables[t] |->
                    [c \in DOMAIN tables[t][r] |->
                        ProcessParagraphs(tables[t][r][c].paragraphs)]]]
    IN [items |->
            [t \in DOMAIN tables |->
                [r \in DOMAIN tables[t] |->
                    [c \in DOMAIN tables[t][r] |->
                        [tables[t][r][c] EXCEPT
                            !.paragraphs = v[t][r][c].paragraphs]]]],
        mb |-> SumSeq([t \in DOMAIN tables |->
                  SumSeq([r \in DOMAIN tables[t] |->
                     SumSeq([c \in DOMAIN tables[t][r] |-> v[t][r][c].mb])])]),
        ctrl |-> SumSeq([t \in DOMAIN tables |->
                  SumSeq([r \in DOMAIN tables[t] |->
                     SumSeq([c \in DOMAIN tables[t][r] |-> v[t][r][c].ctrl])])])]

\* clean_docx between Document(src) and doc.save(dst): the mutated document
\* and (mb_total, ctrl_total)
WalkDocument(d) ==
    LET b == ProcessParagraphs(d.paragraphs)
        t == WalkTables(d.tables)
    IN [doc |-> [d EXCEPT !.paragraphs = b.paragraphs, !.tables = t.items],
        mb |-> b.mb + t.mb, ctrl |-> b.ctrl + t.ctrl]

(***************************************************************************)
(* SpecText: the text functions applied to every string of at most MaxLen  *)
(* characters of the alphabet.                                             *)
(***************************************************************************)
Strings == UNION {[1..k -> Alphabet] : k \in 0..MaxLen}

NoResult == [text |-> <<>>, mb |-> 0, ctrl |-> 0]

\* the variables of main while the text functions are exercised
MainIdle ==
    /\ fs = <<>> /\ fs0 = <<>> /\ fsIter = <<>>
    /\ targets = <<>> /\ backup = FALSE /\ suffix = <<>>
    /\ candidates = <<>> /\ idx = 0 /\ pc = "idle"
    /\ doc = NoResult /\ counts = <<0, 0>>
    /\ total_mb = 0 /\ total_ctrl = 0 /\ exitStatus = -1 /\ log = <<>>

TextInit ==
    /\ text \in Strings
    /\ stage = "input"
    /\ first = NoResult
    /\ second = NoResult
    /\ MainIdle

\* (out, n) = _strip_control_chars(text)
ApplyStrip ==
    /\ stage = "input"
    /\ LET s == StripControlChars(text)
       IN first' = [text |-> s[1], mb |-> 0, ctrl |-> s[2]]
    /\ stage' = "stripped"
    /\ UNCHANGED <<text, second, mainVars>>

\* (c, m, k) = _clean_string(text)
ApplyClean ==
    /\ stage = "input"
    /\ first' = CleanString(text)
    /\ stage' = "cleaned"
    /\ UNCHANGED <<text, second, mainVars>>

\* _clean_string(c), the pipeline run on its own output
ApplyCleanAgain ==
    /\ stage = "cleaned"
    /\ second' = CleanString(first.text)
    /\ stage' = "recleaned"
    /\ UNCHANGED <<text, first, mainVars>>

\* the walker visits a run holding text
ApplyVisit ==
    /\ stage = "input"
    /\ first' = VisitRun(text)
    /\ stage' = "visited"
    /\ UNCHANGED <<text, second, mainVars>>

TextNext == ApplyStrip \/ ApplyClean \/ ApplyCleanAgain \/ ApplyVisit

SpecText == TextInit /\ [][TextNext]_vars

\* The repair model leaves its own output unchanged (the premise under which
\* idempotence of the pipeline is claimed).
FixTextIsIdempotent == FixText(FixText(text)) = FixText(text)

(***************************************************************************)
(* C4.  _strip_control_chars returns (out, n): out is the input with every *)
(* character of category Cf or Cc other than tab, newline and carriage     *)
(* return deleted, the rest kept in order; n is the number of deleted      *)
(* characters, so n = len(input) - len(out).                               *)
(***************************************************************************)
C4_Deleted(ch) ==
    Category(ch) \in {"Cf", "Cc"} /\ ch \notin {"TAB", "LF", "CR"}

C4_Kept(ch) == ~C4_Deleted(ch)

C4_StripDeletesExactlyControls ==
    stage = "stripped" =>
        /\ first.text = SelectSeq(text, C4_Kept)
        /\ first.ctrl = Cardinality({i \in DOMAIN text : C4_Deleted(text[i])})
        /\ first.ctrl = Len(text) - Len(first.text)

\* a string mixing deleted controls, preserved whitespace and a letter
C4_Witness ==
    /\ stage = "stripped"
    /\ first.ctrl > 0
    /\ \E i \in DOMAIN text : text[i] \in {"TAB", "LF", "CR"}
    /\ \E i \in DOMAIN first.text : first.text[i] = "e"

(***************************************************************************)
(* C5.  Idempotence of the pipeline: if (c, m, k) = _clean_string(t) then  *)
(* _clean_string(c) = (c, 0, 0).                                           *)
(***************************************************************************)
C5_CleanIsIdempotent ==
    stage = "recleaned" => second = [text |-> first.text, mb |-> 0, ctrl |-> 0]

(***************************************************************************)
(* C7.  For a run visited by the walker, the length of the text it holds   *)
(* afterwards is the length of the repaired text minus the control-removed *)
(* count reported for the run; when repair leaves the length unchanged it  *)
(* is the length before the visit minus that count.                        *)
(***************************************************************************)
C7_RunLengthAccounting ==
    stage = "visited" =>
        /\ Len(first.text) = Len(FixText(text)) - first.ctrl
        /\ Len(FixText(text)) = Len(text) =>
               Len(first.text) = Len(text) - first.ctrl

\* a run from which a control character was removed after repair shortened it
C7_Witness ==
    /\ stage = "visited"
    /\ first.ctrl > 0
    /\ Len(FixText(text)) < Len(text)
    /\ first.text # <<>>

\* a run whose length repair leaves alone and that loses a control character
C7_WitnessSameLength ==
    /\ stage = "visited"
    /\ first.ctrl > 0
    /\ Len(FixText(text)) = Len(text)

(***************************************************************************)
(* Spec: one invocation of main.                                           *)
(*                                                                         *)
(* All files live in one directory, which is also the script's directory   *)
(* and the working directory.  A file name is [stem, ext]: the stem is a   *)
(* sequence of tokens (appending the suffix is concatenation), the ext is  *)
(* the extension without its dot.  The directory fs maps the names that    *)
(* exist to their content: a document, a file that is no document          *)
(* container (kind "junk"), or a subdirectory (kind "dir").                *)
(***************************************************************************)

\* Most arguments on the command line.
MaxTargets == 2

\* exit status of ap.error
UsageError == 2
\* exit status of the interpreter when an exception reaches the top level
Uncaught == 1

Name(stem, ext) == [stem |-> stem, ext |-> ext]

ADocx == Name(<<"a">>, "docx")
ACleanDocx == Name(<<"a", "_clean">>, "docx")
ATxt == Name(<<"a">>, "txt")
StarDocx == Name(<<"*">>, "docx")    \* the pattern *.docx
Star == Name(<<"*">>, "")            \* the pattern *

Absent == [kind |-> "absent"]
Present(f) == [q \in {p \in DOMAIN f : f[p] # Absent} |-> f[q]]

Junk == [kind |-> "junk"]
Dir == [kind |-> "dir"]

\* one body paragraph of two runs, the first holding a control character
DocA ==
    [kind |-> "docx",
     paragraphs |-> << << <<"e", "FF">>, <<"e">> >> >>,
     tables |-> <<>>]

\* a body run that repair changes, and a table whose only cell holds a
\* paragraph and a nested table
DocB ==
    [kind |-> "docx",
     paragraphs |-> << << <<"e", "acute">> >> >>,
     tables |-> <<
        << << [paragraphs |-> << << <<"SHY", "e">> >> >>,
               tables |-> <<
                  << << [paragraphs |-> << << <<"e", "FF">> >> >>,
                         tables |-> <<>>] >> >>
               >>] >> >>
     >>]

\* str.lower on an extension
Lower(ext) == IF ext = "DOCX" THEN "docx" ELSE ext

Exists(f, p) == p \in DOMAIN f
IsFile(f, p) == p \in DOMAIN f /\ f[p].kind # "dir"

\* the directory after content c is written at p
Write(f, p, c) == [q \in DOMAIN f \cup {p} |-> IF q = p THEN c ELSE f[q]]

\* Path.replace: from is renamed to to, replacing what was there
Replace(f, from, to) ==
    [q \in (DOMAIN f \ {from}) \cup {to} |-> IF q = to THEN f[from] ELSE f[q]]

\* src.with_stem(src.stem + args.suffix)
Dst(src, sfx) == [src EXCEPT !.stem = src.stem \o sfx]

\* p.with_suffix(".bak")
WithSuffixBak(p) == [p EXCEPT !.ext = "bak"]

\* whether directory entry q matches the glob pattern p.name
GlobMatch(p, q) ==
    IF p.stem = <<"*">> THEN p.ext = "" \/ q.ext = p.ext ELSE q = p

\* the orders in which a directory scan may yield the set S
Orderings(S) ==
    {s \in [1..Cardinality(S) -> S] :
        \A i, j \in 1..Cardinality(S) : i # j => s[i] # s[j]}

\* p.parent.glob(p.name): the matches, in any directory order
Glob(f, p) == Orderings({q \in DOMAIN f : GlobMatch(p, q)})

\* the body of _iter_docx's loop for one argument: the paths it may yield
IterOne(f, t) ==
    IF IsFile(f, t) /\ Lower(t.ext) = "docx" THEN {<<t>>} ELSE Glob(f, t)

\* _iter_docx: the lists the arguments may resolve to
RECURSIVE IterDocx(_, _)
IterDocx(f, ts) ==
    IF ts = <<>> THEN {<<>>}
    ELSE {h \o r : h \in IterOne(f, Head(ts)), r \in IterDocx(f, Tail(ts))}

\* the resolution step of main: explicit targets, or the script directory
Resolution(f, ts) == IF ts # <<>> THEN IterDocx(f, ts) ELSE Glob(f, StarDocx)

\* A plausible slip: the empty list is let through to the loop.
NoCandidatesNever(c) == FALSE

\* `if not candidates`
NoCandidates(c) == c = <<>>

\* A plausible slip: the total is overwritten instead of increased.
AccumulateOverwrite(total, n) == n

\* total += n
Accumulate(total, n) == total + n

Event(op, i, path, c) ==
    [op |-> op, idx |-> i, path |-> path, mb |-> c[1], ctrl |-> c[2]]

\* The directories main may start in: a.docx is missing, a document, a file
\* that is no document, or a subdirectory; a_clean.docx (as a prior run with
\* the default suffix leaves it) and a.txt are there or not.
InitialDirs ==
    {Present(f) : f \in
        {g \in [{ADocx, ACleanDocx, ATxt} -> {Absent, DocA, DocB, Junk, Dir}] :
            /\ g[ADocx] \in {Absent, DocA, Junk, Dir}
            /\ g[ACleanDocx] \in {Absent, DocB}
            /\ g[ATxt] \in {Absent, Junk}}}

Arguments == {ADocx, ACleanDocx, ATxt, StarDocx, Star}

TextIdle ==
    /\ text = <<>> /\ stage = "idle" /\ first = NoResult /\ second = NoResult

Init ==
    /\ fs \in InitialDirs
    /\ fs0 = fs
    /\ fsIter = fs
    /\ targets \in UNION {[1..k -> Arguments] : k \in 0..MaxTargets}
    /\ backup \in BOOLEAN
    /\ suffix \in {<<"_clean">>, <<>>}
    /\ candidates = <<>>
    /\ idx = 0
    /\ pc = "resolve"
    /\ doc = NoResult
    /\ counts = <<0, 0>>
    /\ total_mb = 0
    /\ total_ctrl = 0
    /\ exitStatus = -1
    /\ log = <<>>
    /\ TextIdle

Src == candidates[idx]

\* an exception propagates out of main: the process ends
Crash ==
    /\ pc' = "crashed"
    /\ exitStatus' = Uncaught

\* main from the resolution of the targets to the start of the loop (a loop
\* over no file goes straight to the summary)
Resolve ==
    /\ pc = "resolve"
    /\ \E c \in Resolution(fs, targets) :
        /\ candidates' = c
        /\ IF NoCandidates(c)
           THEN pc' = "exit" /\ exitStatus' = UsageError /\ idx' = idx
           ELSE /\ pc' = IF Len(c) >= 1 THEN "iter" ELSE "finish"
                /\ exitStatus' = exitStatus
                /\ idx' = IF Len(c) >= 1 THEN 1 ELSE idx
    /\ total_mb' = 0
    /\ total_ctrl' = 0
    /\ UNCHANGED <<fs, fs0, fsIter, targets, backup, suffix, doc, counts, log,
                   textVars>>

\* the head of the loop body: dst is computed and, with --backup and dst
\* there, src.replace(src.with_suffix(".bak"))
BeginIteration ==
    /\ pc = "iter"
    /\ fsIter' = fs
    /\ IF backup /\ Exists(fs, Dst(Src, suffix))
       THEN IF Exists(fs, Src)
            THEN /\ fs' = Replace(fs, Src, WithSuffixBak(Src))
                 /\ log' = Append(log, Event("rename", idx, Src, <<0, 0>>))
                 /\ pc' = "load"
                 /\ exitStatus' = exitStatus
            ELSE /\ Crash
                 /\ UNCHANGED <<fs, log>>
       ELSE /\ pc' = "load"
            /\ UNCHANGED <<fs, log, exitStatus>>
    /\ UNCHANGED <<fs0, targets, backup, suffix, candidates, idx, doc, counts,
                   total_mb, total_ctrl, textVars>>

\* clean_docx: doc = Document(src)
Load ==
    /\ pc = "load"
    /\ IF IsFile(fs, Src) /\ fs[Src].kind = "docx"
       THEN /\ doc' = fs[Src]
            /\ log' = Append(log, Event("load", idx, Src, <<0, 0>>))
            /\ pc' = "walk"
            /\ exitStatus' = exitStatus
       ELSE /\ Crash
            /\ UNCHANGED <<doc, log>>
    /\ UNCHANGED <<fs, fs0, fsIter, targets, backup, suffix, candidates, idx,
                   counts, total_mb, total_ctrl, textVars>>

\* clean_docx: the walk over the body paragraphs and the tables
Walk ==
    /\ pc = "walk"
    /\ LET w == WalkDocument(doc)
       IN /\ doc' = w.doc
          /\ counts' = <<w.mb, w.ctrl>>
    /\ pc' = "save"
    /\ UNCHANGED <<fs, fs0, fsIter, targets, backup, suffix, candidates, idx,
                   total_mb, total_ctrl, exitStatus, log, textVars>>

\* clean_docx: dst.parent.mkdir (the directory is there: nothing happens),
\* doc.save(dst) and the return; then main adds the counts to the totals and
\* goes on to the next file, or leaves the loop
Save ==
    /\ pc = "save"
    /\ ~(Exists(fs, Dst(Src, suffix)) /\ fs[Dst(Src, suffix)].kind = "dir")
    /\ fs' = Write(fs, Dst(Src, suffix), doc)
    /\ log' = Append(log, Event("save", idx, Dst(Src, suffix), counts))
    /\ total_mb' = Accumulate(total_mb, counts[1])
    /\ total_ctrl' = Accumulate(total_ctrl, counts[2])
    /\ IF idx < Len(candidates)
       THEN idx' = idx + 1 /\ pc' = "iter"
       ELSE idx' = idx /\ pc' = "finish"
    /\ UNCHANGED <<fs0, fsIter, targets, backup, suffix, candidates, doc,
                   counts, exitStatus, textVars>>

\* clean_docx: doc.save(dst) raises.  The destination is a directory, or the
\* file system refuses the write: before the file is opened (nothing changes)
\* or after it was truncated (a partial file is left at dst).
SaveFails ==
    /\ pc = "save"
    /\ \/ fs' = fs
       \/ /\ ~(Exists(fs, Dst(Src, suffix)) /\ fs[Dst(Src, suffix)].kind = "dir")
          /\ fs' = Write(fs, Dst(Src, suffix), Junk)
    /\ Crash
    /\ UNCHANGED <<fs0, fsIter, targets, backup, suffix, candidates, idx, doc,
                   counts, total_mb, total_ctrl, log, textVars>>

\* the end of main after the loop: the summary is printed, the status is 0
Finish ==
    /\ pc = "finish"
    /\ pc' = "done"
    /\ exitStatus' = 0
    /\ UNCHANGED <<fs, fs0, fsIter, targets, backup, suffix, candidates, idx,
                   doc, counts, total_mb, total_ctrl, log, textVars>>

Next == Resolve \/ BeginIteration \/ Load \/ Walk \/ Save \/ SaveFails \/ Finish

Spec == Init /\ [][Next]_vars

(***************************************************************************)
(* C1.  With --backup and a file already at the destination path, the file *)
(* that was at the destination is renamed to the corresponding .bak path   *)
(* before the new output is written, the source is neither renamed nor     *)
(* removed, and when the iteration completes the new output is at the      *)
(* destination path.                                                       *)
(***************************************************************************)
\* Stated for the claim's plainest case, so that a violation rests on nothing
\* else: every resolved path is a .docx file and the destination is not the
\* source itself.
C1_Step ==
    /\ ( /\ pc = "iter" /\ backup /\ Exists(fs, Dst(Src, suffix))
         /\ Dst(Src, suffix) # Src
         /\ \A i \in DOMAIN candidates :
                IsFile(fs0, candidates[i]) /\ candidates[i].ext = "docx" ) =>
          /\ Exists(fs', WithSuffixBak(Dst(Src, suffix)))
          /\ fs'[WithSuffixBak(Dst(Src, suffix))] = fs[Dst(Src, suffix)]
          /\ Exists(fs', Src)
          /\ fs'[Src] = fs[Src]
    /\ (pc = "save" /\ pc' \in {"iter", "finish"}) =>
          /\ Exists(fs', Dst(Src, suffix))
          /\ fs'[Dst(Src, suffix)] = doc

C1_BackupRenamesDestination == [][C1_Step]_vars

(***************************************************************************)
(* C2.  If processing of a file fails at any step, that file's source is   *)
(* still at its path with the content it had, the run stops, and no later  *)
(* file of the list is loaded, renamed or written.                         *)
(***************************************************************************)
\* Stated for lists of .docx files, so that a violation does not rest on
\* what resolution lets through.
C2_FailureLeavesSourceAndStops ==
    ( /\ pc = "crashed"
      /\ \A i \in DOMAIN candidates :
             IsFile(fs0, candidates[i]) /\ candidates[i].ext = "docx" ) =>
        /\ Exists(fs, Src)
        /\ Exists(fsIter, Src)
        /\ fs[Src] = fsIter[Src]
        /\ \A n \in DOMAIN log : log[n].idx <= idx
        /\ ~ENABLED Next

(***************************************************************************)
(* C3.  When resolution yields the empty list, the program ends with exit  *)
(* status 2 before the loop starts: no file is loaded, renamed, created or *)
(* written.                                                                *)
(***************************************************************************)
C3_EmptyResolutionExits2 ==
    (pc # "resolve" /\ candidates = <<>>) =>
        /\ pc = "exit"
        /\ exitStatus = 2
        /\ fs = fs0
        /\ log = <<>>
        /\ ~ENABLED Next

\* explicit targets that match nothing in a directory that holds files
C3_Witness ==
    /\ pc = "exit"
    /\ targets # <<>>
    /\ DOMAIN fs # {}

\* no targets, and no *.docx in the script directory
C3_WitnessScan ==
    /\ pc = "exit"
    /\ targets = <<>>
    /\ DOMAIN fs # {}

(***************************************************************************)
(* C6.  Every path produced by file resolution is an existing file whose   *)
(* extension is .docx.                                                     *)
(***************************************************************************)
C6_ResolvedAreDocxFiles ==
    pc # "resolve" =>
        \A i \in DOMAIN candidates :
            IsFile(fs0, candidates[i]) /\ candidates[i].ext = "docx"

(***************************************************************************)
(* C8.  After clean_docx returns, every run of the saved document, in body *)
(* paragraphs and in the paragraphs of table cells at any nesting depth,   *)
(* holds no Cf or Cc character other than tab, newline and carriage        *)
(* return, and the returned counts are the sums over all those runs.       *)
(***************************************************************************)
RECURSIVE C8_Flatten(_)
C8_Flatten(ss) == IF ss = <<>> THEN <<>> ELSE Head(ss) \o C8_Flatten(Tail(ss))

\* the runs of the cells of the tables, nested tables included
RECURSIVE C8_RunsOfTables(_)
C8_RunsOfTables(tables) ==
    C8_Flatten([t \in DOMAIN tables |->
        C8_Flatten([r \in DOMAIN tables[t] |->
            C8_Flatten([c \in DOMAIN tables[t][r] |->
                C8_Flatten(tables[t][r][c].paragraphs)
                \o C8_RunsOfTables(tables[t][r][c].tables)])])])

C8_AllRuns(d) == C8_Flatten(d.paragraphs) \o C8_RunsOfTables(d.tables)

C8_RunIsClean(run) ==
    \A i \in DOMAIN run :
        ~(Category(run[i]) \in {"Cf", "Cc"} /\ run[i] \notin {"TAB", "LF", "CR"})

C8_EveryRunCleaned ==
    \A n \in DOMAIN log :
        (n = Len(log) /\ log[n].op = "save") =>
            LET saved == C8_AllRuns(fs[log[n].path])
                before == C8_AllRuns(fsIter[candidates[log[n].idx]])
            IN /\ \A k \in DOMAIN saved : C8_RunIsClean(saved[k])
               /\ log[n].mb =
                    SumSeq([k \in DOMAIN before |-> CleanString(before[k]).mb])
               /\ log[n].ctrl =
                    SumSeq([k \in DOMAIN before |-> CleanString(before[k]).ctrl])

(***************************************************************************)
(* C9.  The target list is fixed before the first file is processed, and   *)
(* processing one target never creates, renames, overwrites or removes the *)
(* source file of a different target of the list.                          *)
(***************************************************************************)
C9_SameAt(p) ==
    /\ Exists(fs, p) <=> Exists(fs', p)
    /\ Exists(fs, p) => fs'[p] = fs[p]

C9_Step ==
    pc \in {"iter", "load", "walk", "save"} =>
        /\ candidates' = candidates
        /\ \A j \in DOMAIN candidates :
               candidates[j] # Src => C9_SameAt(candidates[j])

C9_NoCrossFileEffects == [][C9_Step]_vars

(***************************************************************************)
(* C10.  main processes the resolved files strictly in resolution order,   *)
(* one at a time: the destination of file k is saved before anything is    *)
(* loaded or renamed for file k+1; each listed occurrence, duplicates      *)
(* included, is processed exactly once; the totals are increased once per  *)
(* completed file by the counts clean_docx returned, so on normal          *)
(* termination they are the sum of the per-file counts of all files.       *)
(***************************************************************************)
C10_Events(op, i) == {n \in DOMAIN log : log[n].op = op /\ log[n].idx = i}

C10_Saves == SelectSeq(log, LAMBDA e : e.op = "save")

C10_SequentialOrder ==
    /\ \A m, n \in DOMAIN log : m < n => log[m].idx <= log[n].idx
    /\ \A n \in DOMAIN log :
        /\ log[n].idx \in DOMAIN candidates
        /\ log[n].path = IF log[n].op = "save"
                         THEN Dst(candidates[log[n].idx], suffix)
                         ELSE candidates[log[n].idx]
        /\ log[n].idx > 1 =>
               \E m \in 1..(n - 1) :
                   log[m].op = "save" /\ log[m].idx = log[n].idx - 1
    /\ \A i \in DOMAIN candidates :
           \A op \in {"rename", "load", "save"} :
               Cardinality(C10_Events(op, i)) <= 1
    /\ total_mb = SumSeq([k \in DOMAIN C10_Saves |-> C10_Saves[k].mb])
    /\ total_ctrl = SumSeq([k \in DOMAIN C10_Saves |-> C10_Saves[k].ctrl])
    /\ pc = "done" =>
           /\ exitStatus = 0
           /\ Len(C10_Saves) = Len(candidates)
           /\ \A i \in DOMAIN candidates :
                  /\ Cardinality(C10_Events("load", i)) = 1
                  /\ Cardinality(C10_Events("save", i)) = 1

\* a completed run over a list that names the same file twice, both
\* occurrences returning counts
C10_Witness ==
    /\ pc = "done"
    /\ \E i, j \in DOMAIN candidates : i < j /\ candidates[i] = candidates[j]
    /\ total_ctrl >= 2

\* a completed run over two different documents
C10_WitnessTwoFiles ==
    /\ pc = "done"
    /\ \E i, j \in DOMAIN candidates : candidates[i] # candidates[j]
    /\ total_mb > 0
    /\ total_ctrl > 0

====
